---- MODULE Spec2Model ----
(***************************************************************************)
(* ScholarSync: the structured-generation client analyzeArticles           *)
(* (services/geminiService, the retrying version) as a state machine.      *)
(*                                                                         *)
(* Strings the code inspects (error messages) are sequences of one-        *)
(* character strings, so that String.prototype.includes is a real          *)
(* substring search.  A response body is a sequence of JSON tokens, and    *)
(* JSON.parse is a recursive-descent parser over it.  The JavaScript       *)
(* value undefined of a numeric field is written 0 (no HTTP status is 0).  *)
(*                                                                         *)
(* Spec is one invocation, FairSpec one invocation with fairness, ConcSpec *)
(* two concurrent invocations, SpecRequest the building of the request,    *)
(* SpecApp the App component that calls analyzeArticles, and SpecUpload    *)
(* the FileUpload component.                                               *)
(***************************************************************************)
EXTENDS Integers, Sequences, FiniteSets, TLC

VARIABLES
    apiKey,      \* process.env.API_KEY
    pc,          \* where the invocation stands: idle, awaitCall, awaitWait, returned, thrown
    topic,       \* argument topic
    files,       \* argument files
    parts,       \* the request parts built before the loop
    attempt,     \* let attempt = 0
    calls,       \* number of ai.models.generateContent calls issued
    sent,        \* the requests passed to ai.models.generateContent, in order
    waits,       \* the delays passed to wait(), in order
    timers,      \* number of timers set by wait() that have not fired yet
    outcomes,    \* what each settled call brought: the class of each outcome, in order
    last,        \* the outcome of the last settled call
    result,      \* the value the promise resolved with
    error,       \* the error the promise rejected with
    invs,        \* concurrent invocations: the state of each, by invocation
    app          \* the App component: its state topic, files, stage, results and error,
                 \* the file batches being read, and the handler that ran last

vars == <<apiKey, pc, topic, files, parts, attempt, calls, sent, waits, timers, outcomes,
          last, result, error, invs, app>>

\* the state of the single invocation followed by Spec
callVars == <<pc, topic, files, parts, attempt, calls, sent, waits, timers, outcomes, last,
              result, error>>

----------------------------------------------------------------------------
(* Bounds of the model *)

\* longest list of documents passed to one invocation
MaxFiles == 1

----------------------------------------------------------------------------
(* Program constants *)

\* const maxRetries = 3
maxRetries == 3

\* the base of the backoff: 2000 * Math.pow(2, attempt - 1)
BaseDelayMs == 2000

----------------------------------------------------------------------------
(* Strings *)

\* s.includes(sub)
Includes(s, sub) ==
    \E i \in 0..(Len(s) - Len(sub)) :
        \A j \in 1..Len(sub) : s[i + j] = sub[j]

\* the literals '429' and '503' of the catch block
Str429 == <<"4", "2", "9">>
Str503 == <<"5", "0", "3">>

\* Math.pow(2, n) for n >= 0
RECURSIVE Pow2(_)
Pow2(n) == IF n <= 0 THEN 1 ELSE 2 * Pow2(n - 1)

----------------------------------------------------------------------------
(* JSON: values, the service's serialisation, and JSON.parse               *)

\* JavaScript values that JSON.parse produces
JNull == [type |-> "null"]
JNum(n) == [type |-> "num", n |-> n]
JStr(s) == [type |-> "str", s |-> s]
JArr(items) == [type |-> "arr", items |-> items]
JObj(m) == [type |-> "obj", m |-> m]

\* tokens of a response text: punctuation, string literal, number literal,
\* the word null, and a run of characters that is no JSON token
TP(c) == [k |-> "p", v |-> c]
TS(s) == [k |-> "s", v |-> s]
TN(d) == [k |-> "n", v |-> d]
TNull == [k |-> "w", v |-> "null"]
TBad == [k |-> "x", v |-> "oops"]

\* the number literals of the model's response texts and the numbers they denote
NumVal == ("0" :> 0) @@ ("50" :> 50) @@ ("100" :> 100) @@ ("429" :> 429)
NumLit(n) == CHOOSE d \in DOMAIN NumVal : NumVal[d] = n

\* the order in which the service writes the members of an object
KeyOrder == <<"individualAnalyses", "summaryTable", "synthesisMatrix",
              "title", "authors", "year", "relevanceRating", "ratingJustification",
              "methodologicalSummary", "keyContributions", "thesisIntegration",
              "article", "rating", "coreConclusion", "utility",
              "commonThemes", "divergentResults", "researchGaps">>

RECURSIVE Serialize(_), SerializeItems(_, _), SerializeMembers(_, _, _)
\* the text the service sends for value v
Serialize(v) ==
    CASE v.type = "null" -> <<TNull>>
      [] v.type = "num" -> <<TN(NumLit(v.n))>>
      [] v.type = "str" -> <<TS(v.s)>>
      [] v.type = "arr" -> <<TP("[")>> \o SerializeItems(v.items, 1) \o <<TP("]")>>
      [] v.type = "obj" -> <<TP("{")>> \o SerializeMembers(v.m, 1, TRUE) \o <<TP("}")>>
SerializeItems(items, i) ==
    IF i > Len(items) THEN <<>>
    ELSE (IF i > 1 THEN <<TP(",")>> ELSE <<>>)
         \o Serialize(items[i]) \o SerializeItems(items, i + 1)
SerializeMembers(m, i, first) ==
    IF i > Len(KeyOrder) THEN <<>>
    ELSE IF KeyOrder[i] \notin DOMAIN m THEN SerializeMembers(m, i + 1, first)
    ELSE (IF first THEN <<>> ELSE <<TP(",")>>)
         \o <<TS(KeyOrder[i]), TP(":")>> \o Serialize(m[KeyOrder[i]])
         \o SerializeMembers(m, i + 1, FALSE)

\* results of the parser's steps: a value and the position after it, or a failure
POk(v, pos) == [ok |-> TRUE, val |-> v, pos |-> pos]
PFail(pos) == [ok |-> FALSE, val |-> JNull, pos |-> pos]

IsTok(t, i, tok) == i <= Len(t) /\ t[i] = tok

RECURSIVE ParseValue(_, _), ParseElements(_, _, _), ParseMembers(_, _, _)
\* the JSON value starting at token i of t
ParseValue(t, i) ==
    IF i > Len(t) THEN PFail(i)
    ELSE CASE t[i] = TNull -> POk(JNull, i + 1)
           [] t[i].k = "n" -> POk(JNum(NumVal[t[i].v]), i + 1)
           [] t[i].k = "s" -> POk(JStr(t[i].v), i + 1)
           [] t[i] = TP("[") ->
                IF IsTok(t, i + 1, TP("]")) THEN POk(JArr(<<>>), i + 2)
                ELSE ParseElements(t, i + 1, <<>>)
           [] t[i] = TP("{") ->
                IF IsTok(t, i + 1, TP("}")) THEN POk(JObj(<<>>), i + 2)
                ELSE ParseMembers(t, i + 1, <<>>)
           [] OTHER -> PFail(i)
\* the elements of an array collected last first
ParseElementsReversed(t, i, acc) ==
    LET e == ParseValue(t, i) IN
    IF ~e.ok THEN e
    ELSE IF IsTok(t, e.pos, TP(",")) THEN ParseElements(t, e.pos + 1, <<e.val>> \o acc)
    ELSE IF IsTok(t, e.pos, TP("]")) THEN POk(JArr(<<e.val>> \o acc), e.pos + 1)
    ELSE PFail(e.pos)
\* the elements of an array from token i on, acc holding those already read
ParseElements(t, i, acc) ==
    LET e == ParseValue(t, i) IN
    IF ~e.ok THEN e
    ELSE IF IsTok(t, e.pos, TP(",")) THEN ParseElements(t, e.pos + 1, Append(acc, e.val))
    ELSE IF IsTok(t, e.pos, TP("]")) THEN POk(JArr(Append(acc, e.val)), e.pos + 1)
    ELSE PFail(e.pos)
\* the members of an object from token i on; a repeated key keeps its last value
ParseMembers(t, i, acc) ==
    IF ~(i + 1 <= Len(t) /\ t[i].k = "s" /\ t[i + 1] = TP(":")) THEN PFail(i)
    ELSE LET e == ParseValue(t, i + 2) IN
         IF ~e.ok THEN e
         ELSE LET m == (t[i].v :> e.val) @@ acc IN
              IF IsTok(t, e.pos, TP(",")) THEN ParseMembers(t, e.pos + 1, m)
              ELSE IF IsTok(t, e.pos, TP("}")) THEN POk(JObj(m), e.pos + 1)
              ELSE PFail(e.pos)

\* the text handed on unparsed, as a string value
JsonParseSkipped(t) == POk(JStr("text"), Len(t) + 1)

\* JSON.parse(text): ok with the value, or not ok (a SyntaxError is thrown)
JsonParse(t) ==
    LET r == ParseValue(t, 1) IN
    IF r.ok /\ r.pos = Len(t) + 1 THEN r ELSE PFail(r.pos)

----------------------------------------------------------------------------
(* Errors *)

\* An error object as the catch block sees it: its message (absent when
\* hasMessage is FALSE), its status and code fields (0 when absent).  name
\* and http say where it comes from and are never read by the code: http is
\* the HTTP status the service answered with, 0 for an error raised locally.
Err(name, http, hasMessage, message, status, code) ==
    [name |-> name, http |-> http, hasMessage |-> hasMessage,
     message |-> message, status |-> status, code |-> code]

\* new Error("API Key is missing in environment variables")
MissingKeyError ==
    Err("Error", 0, TRUE,
        <<"A","P","I"," ","K","e","y"," ","i","s"," ","m","i","s","s","i","n","g"," ",
          "i","n"," ","e","n","v","i","r","o","n","m","e","n","t"," ",
          "v","a","r","i","a","b","l","e","s">>, 0, 0)

\* new Error("No response generated")
NoResponseError ==
    Err("Error", 0, TRUE,
        <<"N","o"," ","r","e","s","p","o","n","s","e"," ",
          "g","e","n","e","r","a","t","e","d">>, 0, 0)

\* The messages a SyntaxError of JSON.parse can carry.  The engine chooses
\* the text: it names the offending token, its character position and an
\* excerpt of the source text, so digits such as 429 or 503 can occur in it.
SyntaxErrorMessages ==
    { <<"U","n","e","x","p","e","c","t","e","d"," ","t","o","k","e","n">>,
      <<"a","t"," ","p","o","s","i","t","i","o","n"," ","4","2","9">>,
      <<"a","t"," ","p","o","s","i","t","i","o","n"," ","1","5","0","3">> }

\* the SyntaxError JSON.parse throws with message m
SyntaxError(m) == Err("SyntaxError", 0, TRUE, m, 0, 0)

\* the message texts of the failures the service call rejects with
FailureMessages ==
    { <<"d","e","n","i","e","d">>,
      <<"g","o","t"," ","4","2","9">>,
      <<"g","o","t"," ","5","0","3">> }

\* The failures ai.models.generateContent rejects with.  The service answers
\* with HTTP 429 (quota exhaustion), 503 (overload) or another status (401);
\* the SDK surfaces the status in the status field, in the code field or in
\* the message text, depending on its version, and never reports a status the
\* service did not answer with in status or code.  A transient failure shows
\* its status in at least one of the three places.
ServiceFailures ==
    { e \in { Err("ApiError", h, hm, m, st, cd) :
                h \in {401, 429, 503}, hm \in BOOLEAN,
                m \in FailureMessages \cup {<<>>},
                st \in {0, 401, 429, 503}, cd \in {0, 401, 429, 503} } :
        /\ e.status \in {0, e.http}
        /\ e.code \in {0, e.http}
        /\ e.hasMessage = (e.message # <<>>)
        /\ e.http = 429 =>
              e.status = 429 \/ e.code = 429 \/ Includes(e.message, Str429)
        /\ e.http = 503 =>
              e.status = 503 \/ e.code = 503 \/ Includes(e.message, Str503) }

\* quota exhaustion recognised by the status field alone
isQuotaErrorStatusOnly(e) == e.status = 429

\* error.message?.includes('429') || error.status === 429 || error.code === 429
isQuotaError(e) ==
    \/ (e.hasMessage /\ Includes(e.message, Str429))
    \/ e.status = 429
    \/ e.code = 429

\* error.message?.includes('503') || error.status === 503
isServerOverload(e) ==
    \/ (e.hasMessage /\ Includes(e.message, Str503))
    \/ e.status = 503

\* the backoff with the exponent off by one
delayMsOffByOne(att) == BaseDelayMs * Pow2(att)

\* 2000 * Math.pow(2, attempt - 1), attempt already incremented
delayMs(att) == BaseDelayMs * Pow2(att - 1)

----------------------------------------------------------------------------
(* The response contract and the bodies the service answers with *)

StringFields(m, ks) == \A k \in ks : k \in DOMAIN m /\ m[k].type = "str"
StringArray(v) == v.type = "arr" /\ \A i \in 1..Len(v.items) : v.items[i].type = "str"

\* responseSchema: the shape the request declares for the response, every
\* listed field required
ConformsAnalysis(v) ==
    /\ v.type = "obj"
    /\ StringFields(v.m, {"title", "authors", "year", "ratingJustification",
                          "methodologicalSummary", "keyContributions", "thesisIntegration"})
    /\ "relevanceRating" \in DOMAIN v.m /\ v.m["relevanceRating"].type = "num"
ConformsRow(v) ==
    /\ v.type = "obj"
    /\ StringFields(v.m, {"article", "coreConclusion", "utility"})
    /\ "rating" \in DOMAIN v.m /\ v.m["rating"].type = "num"
    /\ v.m["utility"].s \in {"Low", "Medium", "High"}
ConformsMatrix(v) ==
    /\ v.type = "obj"
    /\ \A k \in {"commonThemes", "divergentResults", "researchGaps"} :
          k \in DOMAIN v.m /\ StringArray(v.m[k])
responseSchema(v) ==
    /\ v.type = "obj"
    /\ {"individualAnalyses", "summaryTable", "synthesisMatrix"} \subseteq DOMAIN v.m
    /\ v.m["individualAnalyses"].type = "arr"
    /\ \A i \in 1..Len(v.m["individualAnalyses"].items) :
          ConformsAnalysis(v.m["individualAnalyses"].items[i])
    /\ v.m["summaryTable"].type = "arr"
    /\ \A i \in 1..Len(v.m["summaryTable"].items) :
          ConformsRow(v.m["summaryTable"].items[i])
    /\ ConformsMatrix(v.m["synthesisMatrix"])

\* an IndividualAnalysis, a SummaryRow and a SynthesisMatrix
Analysis1 ==
    JObj([title |-> JStr("T1"), authors |-> JStr("Au"), year |-> JStr("2024"),
          relevanceRating |-> JNum(100), ratingJustification |-> JStr("J"),
          methodologicalSummary |-> JStr("M"), keyContributions |-> JStr("K"),
          thesisIntegration |-> JStr("I")])
Row1 ==
    JObj([article |-> JStr("T1"), rating |-> JNum(50),
          coreConclusion |-> JStr("C"), utility |-> JStr("High")])
Row2 ==
    JObj([article |-> JStr("T2"), rating |-> JNum(0),
          coreConclusion |-> JStr("D"), utility |-> JStr("Low")])
\* a summary row that omits utility
RowNoUtility ==
    JObj([article |-> JStr("T1"), rating |-> JNum(50), coreConclusion |-> JStr("C")])
Matrix1 ==
    JObj([commonThemes |-> JArr(<<JStr("th"), JStr("fw")>>),
          divergentResults |-> JArr(<<>>), researchGaps |-> JArr(<<JStr("gap")>>)])
AnalysisResponse(analyses, rows) ==
    JObj([individualAnalyses |-> JArr(analyses), summaryTable |-> JArr(rows),
          synthesisMatrix |-> Matrix1])

\* payloads of the declared shape
WellFormedPayloads ==
    { AnalysisResponse(<<>>, <<>>), AnalysisResponse(<<Analysis1>>, <<Row1, Row2>>) }

\* payloads that are JSON but not of the declared shape
OffSchemaPayloads ==
    { AnalysisResponse(<<Analysis1>>, <<RowNoUtility>>) }

\* payloads of the declared types whose values are out of range: a rating
\* above 100, and a utility that is none of Low, Medium, High
RowRating429 ==
    JObj([article |-> JStr("T1"), rating |-> JNum(429),
          coreConclusion |-> JStr("C"), utility |-> JStr("High")])
RowUtilityLower ==
    JObj([article |-> JStr("T1"), rating |-> JNum(50),
          coreConclusion |-> JStr("C"), utility |-> JStr("low")])
OutOfRangePayloads ==
    { AnalysisResponse(<<Analysis1>>, <<RowRating429>>),
      AnalysisResponse(<<Analysis1>>, <<RowUtilityLower>>) }

\* texts that are not JSON: a body cut short, and a body that is no JSON at all
MalformedTexts ==
    { SubSeq(Serialize(AnalysisResponse(<<>>, <<>>)), 1, 6), <<TBad>> }

\* response.text of the responses the service answers with: absent
\* (hasText FALSE), the empty string, or a text
Responses ==
    { [hasText |-> FALSE, text |-> <<>>], [hasText |-> TRUE, text |-> <<>>] }
    \cup { [hasText |-> TRUE, text |-> Serialize(v)] :
              v \in WellFormedPayloads \cup OffSchemaPayloads \cup OutOfRangePayloads }
    \cup { [hasText |-> TRUE, text |-> t] : t \in MalformedTexts }

----------------------------------------------------------------------------
(* The request *)

\* PROMPT_TEMPLATE, cut at the placeholder
PROMPT_TEMPLATE ==
    <<"You are an Academic Research Assistant", "Research Topic: ",
      "{RESEARCH_TOPIC}", "Follow these stages rigorously",
      "Return the result in the specified JSON structure.">>

\* the first index at which pat occurs in s, 0 when it does not
IndexOf(s, pat) ==
    LET hits == { i \in 1..(Len(s) - Len(pat) + 1) :
                     \A j \in 1..Len(pat) : s[i + j - 1] = pat[j] }
    IN IF hits = {} THEN 0 ELSE CHOOSE i \in hits : \A k \in hits : i <= k

RECURSIVE GetSubstitution(_, _, _, _)
\* the replacement text with its $ patterns expanded: $$ is a dollar sign, $&
\* the matched text, $` the text before the match and $' the text after it
GetSubstitution(rep, matched, before, after) ==
    IF rep = <<>> THEN <<>>
    ELSE (CASE Head(rep) = "$$" -> <<"$">>
            [] Head(rep) = "$&" -> matched
            [] Head(rep) = "$`" -> before
            [] Head(rep) = "$'" -> after
            [] OTHER -> <<Head(rep)>>)
         \o GetSubstitution(Tail(rep), matched, before, after)

\* s.replace(pat, rep) with a string pattern: the first occurrence only
Replace(s, pat, rep) ==
    LET i == IndexOf(s, pat) IN
    IF i = 0 THEN s
    ELSE LET before == SubSeq(s, 1, i - 1)
             after == SubSeq(s, i + Len(pat), Len(s))
         IN before \o GetSubstitution(rep, pat, before, after) \o after

RECURSIVE Split(_, _, _)
\* s.split(sep) for a one-character separator, cur holding the piece being read
Split(s, sep, cur) ==
    IF s = <<>> THEN <<cur>>
    ELSE IF Head(s) = sep THEN <<cur>> \o Split(Tail(s), sep, <<>>)
    ELSE Split(Tail(s), sep, Append(cur, Head(s)))

\* fileInput.base64.split(',')[1]: absent when the text holds no comma
base64Data(fileInput) ==
    LET pieces == Split(fileInput.base64, ",", <<>>) IN
    IF Len(pieces) >= 2 THEN [def |-> TRUE, v |-> pieces[2]]
    ELSE [def |-> FALSE, v |-> <<>>]

\* the loop over files leaving before the last file
BuildPartsDropLast(t, fs) ==
    <<[kind |-> "text", text |-> Replace(PROMPT_TEMPLATE, <<"{RESEARCH_TOPIC}">>, t)]>>
    \o [i \in 1..(Len(fs) - 1) |->
          [kind |-> "inlineData", mimeType |-> fs[i].type, data |-> base64Data(fs[i])]]

\* the parts of the request: the prompt, then one inlineData part per file
BuildParts(t, fs) ==
    <<[kind |-> "text", text |-> Replace(PROMPT_TEMPLATE, <<"{RESEARCH_TOPIC}">>, t)]>>
    \o [i \in 1..Len(fs) |->
          [kind |-> "inlineData", mimeType |-> fs[i].type, data |-> base64Data(fs[i])]]

\* the argument of ai.models.generateContent with the parts p: the model,
\* the parts, and the config (responseSchema stands for the constant above)
GenerateContentRequest(p) ==
    [model |-> "gemini-3-flash-preview", parts |-> p,
     responseMimeType |-> "application/json", responseSchema |-> "responseSchema",
     thinkingBudget |-> 2048]

\* the topics and the files callers pass
Topics == { <<"A", "I">>, <<"$&", "x">> }
FileInputs ==
    { [name |-> "a.pdf", type |-> "application/pdf",
       base64 |-> <<"data:application/pdf;base64", ",", "QUJD">>],
      [name |-> "b.pdf", type |-> "application/pdf",
       base64 |-> <<"data:application/pdf;base64", ",", "REVG">>] }
FileLists == UNION { [1..n -> FileInputs] : n \in 0..MaxFiles }

\* the values of process.env.API_KEY: absent, empty, or a key
ApiKeys == { [def |-> FALSE, v |-> ""], [def |-> TRUE, v |-> ""], [def |-> TRUE, v |-> "key"] }

\* the key compared with undefined only
KeyUndefined(k) == ~k.def

\* !apiKey
KeyMissing(k) == ~k.def \/ k.v = ""

----------------------------------------------------------------------------
(* analyzeArticles *)

NoError == Err("none", 0, FALSE, <<>>, 0, 0)
NoResult == [has |-> FALSE, val |-> JNull]
NoOutcome == [kind |-> "none"]

\* what a settled call brought, as the service meant it: a failure by the
\* HTTP status answered, a response by its body
ClassOf(o) ==
    IF o.kind = "failure"
    THEN (CASE o.err.http = 429 -> "quota"
            [] o.err.http = 503 -> "overload"
            [] OTHER -> "other")
    ELSE IF ~o.resp.hasText \/ o.resp.text = <<>> THEN "empty"
    ELSE IF JsonParse(o.resp.text).ok THEN "payload"
    ELSE "malformed"

\* the call sites of analyzeArticles that run concurrently
Invocations == {1, 2}

\* an invocation not started: the locals of analyzeArticles and what it has
\* seen of the service (seen: the outcomes of its own calls, in order)
InvIdle ==
    [pc |-> "idle", topic |-> <<>>, files |-> <<>>, parts |-> <<>>, attempt |-> 0,
     calls |-> 0, waits |-> <<>>, timers |-> 0, seen |-> <<>>,
     result |-> NoResult, error |-> NoError]

\* App after its first render: useState('') for topic, [] for files, INPUT
\* for stage, null for results and for error; nothing is being read
NoAppError == [has |-> FALSE, msg |-> <<>>]
AppInitial ==
    [topic |-> <<>>, files |-> <<>>, stage |-> "INPUT", results |-> JNull,
     error |-> NoAppError, reading |-> {}, op |-> "none"]

\* no invocation of analyzeArticles yet
NoInvocation ==
    /\ invs = [i \in Invocations |-> InvIdle]
    /\ pc = "idle"
    /\ topic = <<>>
    /\ files = <<>>
    /\ parts = <<>>
    /\ attempt = 0
    /\ calls = 0
    /\ sent = <<>>
    /\ waits = <<>>
    /\ timers = 0
    /\ outcomes = <<>>
    /\ last = NoOutcome
    /\ result = NoResult
    /\ error = NoError

Init ==
    /\ apiKey \in ApiKeys
    /\ app = AppInitial
    /\ NoInvocation

\* every error retried while the budget lasts
ShouldRetryAnyError(e, att) == att < maxRetries

\* (isQuotaError || isServerOverload) && attempt < maxRetries
ShouldRetry(e, att) ==
    (isQuotaError(e) \/ isServerOverload(e)) /\ att < maxRetries

\* !response.text
NoText(resp) == ~resp.hasText \/ resp.text = <<>>

\* the catch block rethrowing a new error in place of the one caught
CatchWrapping(e) ==
    IF ShouldRetry(e, attempt)
    THEN /\ attempt' = attempt + 1
         /\ waits' = Append(waits, delayMs(attempt + 1))
         /\ timers' = timers + 1
         /\ pc' = "awaitWait"
         /\ UNCHANGED <<calls, sent, result, error>>
    ELSE /\ pc' = "thrown"
         /\ error' = Err("Error", 0, TRUE, <<"f","a","i","l","e","d">>, 0, 0)
         /\ UNCHANGED <<attempt, waits, timers, calls, sent, result>>

\* the catch block with wait(delayMs) not awaited: the loop goes on at once
CatchNoAwait(e) ==
    IF ShouldRetry(e, attempt)
    THEN /\ attempt' = attempt + 1
         /\ waits' = Append(waits, delayMs(attempt + 1))
         /\ timers' = timers + 1
         /\ calls' = calls + 1
         /\ sent' = Append(sent, GenerateContentRequest(parts))
         /\ pc' = "awaitCall"
         /\ UNCHANGED <<result, error>>
    ELSE /\ pc' = "thrown"
         /\ error' = e
         /\ UNCHANGED <<attempt, waits, timers, calls, sent, result>>

\* the catch block, entered with error e
Catch(e) ==
    IF ShouldRetry(e, attempt)
    THEN /\ attempt' = attempt + 1
         /\ waits' = Append(waits, delayMs(attempt + 1))
         /\ timers' = timers + 1
         /\ pc' = "awaitWait"
         /\ UNCHANGED <<calls, sent, result, error>>
    ELSE /\ pc' = "thrown"
         /\ error' = e
         /\ UNCHANGED <<attempt, waits, timers, calls, sent, result>>

\* analyzeArticles(t, fs) up to its first await: the key check, the request
\* parts, and the first call of the loop
Invoke(t, fs) ==
    /\ pc = "idle"
    /\ topic' = t
    /\ files' = fs
    /\ IF KeyMissing(apiKey)
       THEN /\ pc' = "thrown"
            /\ error' = MissingKeyError
            /\ UNCHANGED <<parts, calls, sent>>
       ELSE /\ parts' = BuildParts(t, fs)
            /\ calls' = calls + 1
            /\ sent' = Append(sent, GenerateContentRequest(BuildParts(t, fs)))
            /\ pc' = "awaitCall"
            /\ UNCHANGED error
    /\ UNCHANGED <<apiKey, attempt, waits, timers, outcomes, last, result>>

\* the awaited call rejects with failure e: the catch block runs
CallRejects(e) ==
    /\ pc = "awaitCall"
    /\ outcomes' = Append(outcomes, ClassOf([kind |-> "failure", err |-> e]))
    /\ last' = [kind |-> "failure", err |-> e]
    /\ Catch(e)
    /\ UNCHANGED <<apiKey, topic, files, parts>>

\* the awaited call resolves with response resp: the rest of the try block
\* runs; m is the message the engine gives the SyntaxError if the text does
\* not parse
CallResolves(resp, m) ==
    /\ pc = "awaitCall"
    /\ outcomes' = Append(outcomes, ClassOf([kind |-> "response", resp |-> resp]))
    /\ last' = [kind |-> "response", resp |-> resp]
    /\ IF NoText(resp) THEN Catch(NoResponseError)
       ELSE LET r == JsonParse(resp.text) IN
            IF r.ok
            THEN /\ pc' = "returned"
                 /\ result' = [has |-> TRUE, val |-> r.val]
                 /\ UNCHANGED <<attempt, waits, timers, calls, sent, error>>
            ELSE Catch(SyntaxError(m))
    /\ UNCHANGED <<apiKey, topic, files, parts>>

\* wait() with a timer whose callback never resolves the promise
TimerNeverResolves ==
    /\ pc = "awaitWait"
    /\ FALSE
    /\ UNCHANGED vars

\* the files pushed onto parts again before each call of the loop
TimerFiresRepushes ==
    /\ pc = "awaitWait"
    /\ timers > 0
    /\ timers' = timers - 1
    /\ calls' = calls + 1
    /\ parts' = parts \o Tail(parts)
    /\ sent' = Append(sent, GenerateContentRequest(parts \o Tail(parts)))
    /\ pc' = "awaitCall"
    /\ UNCHANGED <<apiKey, topic, files, attempt, waits, outcomes, last, result, error>>

\* the timer of wait(delayMs) fires: continue, the next call of the loop
TimerFires ==
    /\ pc = "awaitWait"
    /\ timers > 0
    /\ timers' = timers - 1
    /\ calls' = calls + 1
    /\ sent' = Append(sent, GenerateContentRequest(parts))
    /\ pc' = "awaitCall"
    /\ UNCHANGED <<apiKey, topic, files, parts, attempt, waits, outcomes, last, result, error>>

Next ==
    \/ (\E t \in Topics, fs \in FileLists : Invoke(t, fs)) /\ UNCHANGED <<invs, app>>
    \/ (\E e \in ServiceFailures : CallRejects(e)) /\ UNCHANGED <<invs, app>>
    \/ (\E resp \in Responses, m \in SyntaxErrorMessages : CallResolves(resp, m))
          /\ UNCHANGED <<invs, app>>
    \/ TimerFires /\ UNCHANGED <<invs, app>>

Spec == Init /\ [][Next]_vars

----------------------------------------------------------------------------
(* Properties *)

Settled == pc \in {"returned", "thrown"}
InFlight == pc \in {"awaitCall", "awaitWait"}
LastClass == outcomes[Len(outcomes)]
TransientClasses == {"quota", "overload"}
WellFormedTexts == { Serialize(v) : v \in WellFormedPayloads }

\* C1: one invocation makes at most 4 calls and at most 3 waits, and a wait
\* is pending only directly after a failure the service answered with 429 or
\* 503, with fewer than 3 retries used before it; both classes share one budget.
C1_WaitOnlyAfterTransient ==
    /\ calls <= 4
    /\ Len(waits) <= 3
    /\ pc = "awaitWait" =>
          /\ LastClass \in TransientClasses
          /\ Len(waits) = Cardinality({ i \in 1..Len(outcomes) :
                                          outcomes[i] \in TransientClasses })

\* C2: when every attempt is answered with 503, the invocation ends only
\* after exactly 4 calls with waits of 2000, 4000 and 8000 ms, by raising.
C2_OverloadOnAllAttempts ==
    (Settled /\ outcomes # <<>> /\ \A i \in 1..Len(outcomes) : outcomes[i] = "overload")
        => /\ pc = "thrown"
           /\ calls = 4
           /\ Len(outcomes) = 4
           /\ waits = <<2000, 4000, 8000>>

\* C3: 429 on attempts 1 and 2 and a well-formed payload on attempt 3: the
\* invocation goes on after each 429 with waits of 2000 then 4000 ms, makes
\* exactly 3 calls and returns the payload of the 3rd attempt.
C3_QuotaTwiceThenPayload ==
    /\ outcomes = <<"quota">> => InFlight /\ waits = <<2000>>
    /\ outcomes = <<"quota", "quota">> => InFlight /\ waits = <<2000, 4000>>
    /\ (outcomes = <<"quota", "quota", "payload">> /\ last.resp.text \in WellFormedTexts)
          => /\ pc = "returned"
             /\ calls = 3
             /\ waits = <<2000, 4000>>
             /\ result.has
             /\ \E v \in WellFormedPayloads :
                   last.resp.text = Serialize(v) /\ result.val = v
C3_Witness ==
    /\ outcomes = <<"quota", "quota", "payload">>
    /\ last.resp.text = Serialize(AnalysisResponse(<<Analysis1>>, <<Row1, Row2>>))
    /\ pc = "returned"
    /\ Len(files) = 1

\* C4: a well-formed payload on the first attempt is returned deserialized,
\* after exactly one call and no wait, whatever the topic and the documents.
C4_FirstAttemptPayload ==
    (outcomes = <<"payload">> /\ last.resp.text \in WellFormedTexts)
        => /\ pc = "returned"
           /\ calls = 1
           /\ waits = <<>>
           /\ error = NoError
           /\ \E v \in WellFormedPayloads :
                 last.resp.text = Serialize(v) /\ result = [has |-> TRUE, val |-> v]
C4_Witness ==
    /\ outcomes = <<"payload">>
    /\ pc = "returned"
    /\ result.val = AnalysisResponse(<<Analysis1>>, <<Row1, Row2>>)
    /\ topic = <<"$&", "x">>
    /\ Len(files) = 1

\* C5: a failure on attempt 1 that the service answered with neither 429 nor
\* 503 is raised at once: one call, no wait, whatever its message and fields.
C5_OtherFailureRaisesAtOnce ==
    outcomes = <<"other">> => pc = "thrown" /\ calls = 1 /\ waits = <<>>

\* C6: a response text that does not parse is never retried: one call, no
\* wait, and the invocation raises, whatever the parse error's message.
C6_MalformedNeverRetried ==
    (outcomes # <<>> /\ outcomes[1] = "malformed")
        => pc = "thrown" /\ calls = 1 /\ waits = <<>> /\ Len(outcomes) = 1

\* C7: a response that misses a field the response schema requires (such as a
\* summaryTable item without utility) is never returned as a result.
C7_ResultConformsToSchema ==
    result.has => responseSchema(result.val)

\* C8: an empty or missing response body ends the invocation on that attempt,
\* whichever it is: the error is raised, with no wait and no call after it.
C8_EmptyBodyTerminal ==
    \A i \in 1..Len(outcomes) :
        outcomes[i] = "empty"
            => /\ i = Len(outcomes)
               /\ pc = "thrown"
               /\ error = NoResponseError
               /\ calls = i
               /\ Len(waits) = i - 1
C8_Witness ==
    /\ Len(outcomes) = 4
    /\ LastClass = "empty"
    /\ ~last.resp.hasText
    /\ pc = "thrown"

\* C9: with the API key absent (not set, or set to the empty string) the
\* invocation fails before any request: no call, no wait, and it ends by
\* raising the missing-key error.
CredentialAbsent == apiKey \in { [def |-> FALSE, v |-> ""], [def |-> TRUE, v |-> ""] }
C9_MissingKeyNoRequest ==
    (CredentialAbsent /\ pc # "idle")
        => /\ pc = "thrown"
           /\ error = MissingKeyError
           /\ calls = 0
           /\ waits = <<>>
           /\ outcomes = <<>>
C9_Witness ==
    pc = "thrown" /\ ~apiKey.def /\ error = MissingKeyError /\ Len(files) = 1

\* C10: the k-th wait is 2000 * 2^(k-1) ms: the waits of one invocation are
\* 2000, 4000, 8000 in that order, each twice the one before, at most 14000 in all.
RECURSIVE Sum(_)
Sum(s) == IF s = <<>> THEN 0 ELSE Head(s) + Sum(Tail(s))
C10_BackoffDoubles ==
    /\ Len(waits) <= 3
    /\ \A k \in 1..Len(waits) : waits[k] = <<2000, 4000, 8000>>[k]
    /\ \A k \in 2..Len(waits) : waits[k] = 2 * waits[k - 1]
    /\ Sum(waits) <= 14000
C10_Witness ==
    waits = <<2000, 4000, 8000>> /\ pc = "awaitWait"

\* C11: an invocation that ends by raising after at least one attempt raises
\* the error of its last attempt unchanged: the failure the last call
\* rejected with (also a 429 or 503 failure once the budget is used up), the
\* no-response error for an empty body, the parser's SyntaxError for a text
\* that does not parse.  It ends with a result or an error, never both, and
\* a result only as the whole value of the last response.
C11_LastErrorUnchanged ==
    /\ (pc = "thrown" /\ outcomes # <<>>) =>
          /\ last.kind = "failure" => error = last.err
          /\ LastClass = "empty" => error = NoResponseError
          /\ LastClass = "malformed" =>
                error \in { SyntaxError(m) : m \in SyntaxErrorMessages }
          /\ LastClass # "payload"
    /\ pc = "thrown" => ~result.has /\ error # NoError
    /\ pc = "returned" => result.has /\ error = NoError /\ LastClass = "payload"
    /\ pc \notin {"returned", "thrown"} => ~result.has /\ error = NoError
C11_Witness ==
    /\ pc = "thrown"
    /\ Len(outcomes) = 4
    /\ \A i \in 1..4 : outcomes[i] \in TransientClasses
    /\ error = last.err
    /\ error.status = 503

\* C12: the steps of one invocation are strictly sequential: at most one call
\* is in flight, no call is in flight while a timer of wait() is pending, and
\* the k-th call is issued only after k-1 waits have been started and completed.
CallsInFlight == calls - Len(outcomes)
C12_StrictlySequential ==
    /\ CallsInFlight \in {0, 1}
    /\ timers \in {0, 1}
    /\ CallsInFlight = 1 => timers = 0 /\ calls = Len(waits) + 1
    /\ timers = 1 => CallsInFlight = 0 /\ calls = Len(waits)
C12_Witness ==
    /\ CallsInFlight = 1
    /\ calls = 3
    /\ waits = <<2000, 4000>>
    /\ timers = 0

\* a failure whose only transient signature is the number c in its code field
CodeOnly(e, c) ==
    /\ e.code = c
    /\ e.status = 0
    /\ ~(e.hasMessage /\ (Includes(e.message, Str429) \/ Includes(e.message, Str503)))

\* C21: a failure whose only transient signature is code = 503 is retried
\* under the policy of a failure whose only signature is code = 429: while
\* fewer than 3 retries were used, the invocation goes on with the next wait.
C21_CodeOnlyOverloadRetried ==
    \A c \in {429, 503} :
        (last.kind = "failure" /\ CodeOnly(last.err, c) /\ Len(outcomes) <= maxRetries)
            => /\ InFlight
               /\ Len(waits) = Len(outcomes)
               /\ waits[Len(waits)] = BaseDelayMs * Pow2(Len(outcomes) - 1)

\* C22: every call of one invocation submits the request of the first one
\* (model, parts, response schema, configuration); a failed attempt that is
\* retried changes the attempt counter only, and a wait changes nothing.
C22_RequestImmutable ==
    [][ /\ Len(sent') = calls'
        /\ \A k \in 1..Len(sent') :
              /\ sent'[k] = sent'[1]
              /\ sent'[k].parts = parts'
        /\ (pc = "awaitCall" /\ pc' = "awaitWait") =>
              /\ attempt' = attempt + 1
              /\ UNCHANGED <<apiKey, topic, files, parts, sent, result, error>>
        /\ (pc = "awaitWait" /\ pc' = "awaitCall") =>
              /\ sent' = Append(sent, sent[1])
              /\ UNCHANGED <<apiKey, topic, files, parts, attempt, result, error>> ]_vars
C22_Witness ==
    /\ Len(sent) = 4
    /\ Len(sent[4].parts) = 2
    /\ sent[4].parts[2].data.v = <<"QUJD">>
    /\ attempt = 3

----------------------------------------------------------------------------
(* Termination *)

\* the awaited call settles, one way or the other
CallSettles ==
    \/ \E e \in ServiceFailures : CallRejects(e)
    \/ \E resp \in Responses, m \in SyntaxErrorMessages : CallResolves(resp, m)

\* analyzeArticles called with one topic and one document: the loop does
\* not read its arguments
FairInvoke ==
    /\ \E fs \in [1..1 -> FileInputs] : Invoke(<<"A", "I">>, fs)
    /\ UNCHANGED <<invs, app>>
FairCallSettles == CallSettles /\ UNCHANGED <<invs, app>>
FairTimerFires == TimerFires /\ UNCHANGED <<invs, app>>

FairNext == FairInvoke \/ FairCallSettles \/ FairTimerFires

\* one invocation with every service call eventually settling and every
\* timer eventually firing
FairSpec ==
    /\ Init
    /\ [][FairNext]_vars
    /\ WF_vars(FairCallSettles)
    /\ WF_vars(FairTimerFires)

\* C13: if every call eventually returns or fails and every timer eventually
\* fires, an invocation under way eventually returns a result or raises.
C13_EventuallySettles == InFlight ~> Settled
C13_Witness ==
    /\ Settled
    /\ Len(outcomes) = 4
    /\ waits = <<2000, 4000, 8000>>

\* the items of the list field k of a result v
ListField(v, k) ==
    IF v.type = "obj" /\ k \in DOMAIN v.m /\ v.m[k].type = "arr" THEN v.m[k].items ELSE <<>>
\* field k of item v is a number in lo..hi
NumberIn(v, k, lo, hi) ==
    v.type = "obj" /\ k \in DOMAIN v.m /\ v.m[k].type = "num" /\ v.m[k].n \in lo..hi

\* C15: in every result analyzeArticles returns, every relevanceRating and
\* every rating is an integer in 0..100 and every utility is one of Low,
\* Medium, High.
C15_RatingsAndUtilityInRange ==
    (pc = "returned" /\ result.has) =>
        /\ \A i \in 1..Len(ListField(result.val, "individualAnalyses")) :
              NumberIn(ListField(result.val, "individualAnalyses")[i], "relevanceRating", 0, 100)
        /\ \A i \in 1..Len(ListField(result.val, "summaryTable")) :
              LET row == ListField(result.val, "summaryTable")[i] IN
              /\ NumberIn(row, "rating", 0, 100)
              /\ "utility" \in DOMAIN row.m
              /\ row.m["utility"] \in { JStr("Low"), JStr("Medium"), JStr("High") }

\* C16: when the successful attempt answered a well-formed response, the
\* result handed to the caller is that response, every field with its value
\* and type and every list in its order, however many retries came before.
C16_RoundTrip ==
    (pc = "returned" /\ last.resp.text \in WellFormedTexts) =>
        /\ result.has
        /\ Serialize(result.val) = last.resp.text
        /\ \A v \in WellFormedPayloads :
              last.resp.text = Serialize(v) =>
                 /\ DOMAIN result.val.m = DOMAIN v.m
                 /\ \A k \in DOMAIN v.m : result.val.m[k] = v.m[k]
C16_Witness ==
    /\ pc = "returned"
    /\ Len(outcomes) = 4
    /\ last.resp.text = Serialize(AnalysisResponse(<<Analysis1>>, <<Row1, Row2>>))
    /\ ListField(result.val, "summaryTable") = <<Row1, Row2>>
    /\ ListField(result.val, "individualAnalyses") = <<Analysis1>>

----------------------------------------------------------------------------
(* Concurrent invocations *)

\* The handlers of analyzeArticles as functions of the locals s of one
\* invocation.  An outcome o of a call is a failure (o.err) or a response
\* (o.resp, with o.m the message of the SyntaxError if its text does not parse).

\* the invocation up to its first await
InvokeStep(s, key, t, fs) ==
    IF KeyMissing(key)
    THEN [s EXCEPT !.topic = t, !.files = fs, !.pc = "thrown", !.error = MissingKeyError]
    ELSE [s EXCEPT !.topic = t, !.files = fs, !.parts = BuildParts(t, fs),
                   !.calls = @ + 1, !.pc = "awaitCall"]

\* the catch block, entered with error e
CatchStep(s, e) ==
    IF ShouldRetry(e, s.attempt)
    THEN [s EXCEPT !.attempt = @ + 1, !.waits = Append(@, delayMs(s.attempt + 1)),
                   !.timers = @ + 1, !.pc = "awaitWait"]
    ELSE [s EXCEPT !.pc = "thrown", !.error = e]

\* the awaited call settles with outcome o
SettleStep(s, o) ==
    LET seen == [s EXCEPT !.seen = Append(@, o)] IN
    IF o.kind = "failure" THEN CatchStep(seen, o.err)
    ELSE IF NoText(o.resp) THEN CatchStep(seen, NoResponseError)
    ELSE LET r == JsonParse(o.resp.text) IN
         IF r.ok THEN [seen EXCEPT !.pc = "returned", !.result = [has |-> TRUE, val |-> r.val]]
         ELSE CatchStep(seen, SyntaxError(o.m))

\* the timer of wait(delayMs) fires
TimerStep(s) ==
    [s EXCEPT !.timers = @ - 1, !.calls = @ + 1, !.pc = "awaitCall"]

\* the attempt counter kept in one variable of the module, shared by all
\* invocations, instead of a local of each
ConcSettleSharedAttempt(st, i, o) ==
    LET mine == SettleStep([st[i] EXCEPT !.attempt = st[1].attempt], o) IN
    [j \in DOMAIN st |-> IF j = i THEN mine ELSE [st[j] EXCEPT !.attempt = mine.attempt]]

\* all invocations after the call of invocation i settled with o: attempt,
\* parts and the rest are locals of invocation i
ConcSettle(st, i, o) == [st EXCEPT ![i] = SettleStep(st[i], o)]

\* what invocation i is called with
ConcTopic(i) == IF i = 1 THEN <<"A", "I">> ELSE <<"$&", "x">>
ConcFiles(i) ==
    <<[name |-> IF i = 1 THEN "a.pdf" ELSE "b.pdf", type |-> "application/pdf",
       base64 |-> <<"data:application/pdf;base64", ",", IF i = 1 THEN "QUJD" ELSE "REVG">>]>>

\* the outcomes of the calls of concurrent invocations: a 429, a 503 and a 401
\* failure, an empty body, a body that does not parse, and a payload
ConcOutcomes ==
    { [kind |-> "failure", err |-> Err("ApiError", 429, FALSE, <<>>, 429, 0)],
      [kind |-> "failure", err |-> Err("ApiError", 503, FALSE, <<>>, 503, 0)],
      [kind |-> "failure", err |-> Err("ApiError", 401, FALSE, <<>>, 401, 0)],
      [kind |-> "response", resp |-> [hasText |-> TRUE, text |-> <<>>],
       m |-> <<"U","n","e","x","p","e","c","t","e","d"," ","t","o","k","e","n">>],
      [kind |-> "response", resp |-> [hasText |-> TRUE, text |-> <<TBad>>],
       m |-> <<"U","n","e","x","p","e","c","t","e","d"," ","t","o","k","e","n">>],
      [kind |-> "response",
       resp |-> [hasText |-> TRUE, text |-> Serialize(AnalysisResponse(<<>>, <<>>))],
       m |-> <<"U","n","e","x","p","e","c","t","e","d"," ","t","o","k","e","n">>] }

ConcInvoke(i) ==
    /\ invs[i].pc = "idle"
    /\ invs' = [invs EXCEPT ![i] = InvokeStep(invs[i], apiKey, ConcTopic(i), ConcFiles(i))]
    /\ UNCHANGED <<apiKey, callVars, app>>

ConcCallSettles(i, o) ==
    /\ invs[i].pc = "awaitCall"
    /\ invs' = ConcSettle(invs, i, o)
    /\ UNCHANGED <<apiKey, callVars, app>>

ConcTimerFires(i) ==
    /\ invs[i].pc = "awaitWait"
    /\ invs[i].timers > 0
    /\ invs' = [invs EXCEPT ![i] = TimerStep(invs[i])]
    /\ UNCHANGED <<apiKey, callVars, app>>

ConcNext ==
    \/ \E i \in Invocations : ConcInvoke(i)
    \/ \E i \in Invocations, o \in ConcOutcomes : ConcCallSettles(i, o)
    \/ \E i \in Invocations : ConcTimerFires(i)

ConcSpec == Init /\ [][ConcNext]_vars

RECURSIVE Replay(_, _)
\* the invocation s run alone over the outcomes outs, every timer firing
Replay(s, outs) ==
    IF outs = <<>> THEN s
    ELSE Replay(SettleStep(IF s.pc = "awaitWait" THEN TimerStep(s) ELSE s, Head(outs)),
                Tail(outs))

\* C14: under every interleaving of two invocations, the state of each (its
\* calls, waits, attempt counter, parts, result and error) is the one it
\* reaches when run alone over the outcomes of its own calls.
C14_InvocationsIndependent ==
    \A i \in Invocations :
        invs[i].pc # "idle" =>
            LET alone == Replay(InvokeStep(InvIdle, apiKey, ConcTopic(i), ConcFiles(i)),
                                invs[i].seen)
            IN \/ invs[i] = alone
               \/ alone.pc = "awaitWait" /\ invs[i] = TimerStep(alone)
C14_Witness ==
    /\ invs[1].pc = "thrown" /\ invs[1].calls = 4 /\ Len(invs[1].waits) = 3
    /\ invs[2].pc = "returned" /\ invs[2].calls = 2 /\ invs[2].waits = <<2000>>
    /\ invs[1].parts # invs[2].parts

----------------------------------------------------------------------------
(* The request of one invocation, over more topics and documents *)

MaxDocs == 2
MaxTopicLen == 2

\* the pieces topics are made of: plain text, the placeholder itself, and
\* the $ patterns of String.prototype.replace ($1 is none without a group)
TopicPieces == { "A", "{RESEARCH_TOPIC}", "$&", "$1", "$$" }
RequestTopics == UNION { [1..n -> TopicPieces] : n \in 0..MaxTopicLen }

\* documents of several MIME types, as FileReader.readAsDataURL encodes them
RequestFileInputs ==
    FileInputs \cup
    { [name |-> "c.txt", type |-> "text/plain",
       base64 |-> <<"data:text/plain;base64", ",", "R0hJ">>] }
RequestFileLists == UNION { [1..n -> RequestFileInputs] : n \in 0..MaxDocs }

RequestInvoke ==
    /\ \E t \in RequestTopics, fs \in RequestFileLists : Invoke(t, fs)
    /\ UNCHANGED <<invs, app>>

RequestNext == RequestInvoke

SpecRequest == Init /\ [][RequestNext]_vars

\* C17: the request built for n documents has n + 1 parts, the instruction
\* text first, then one part per document in input order, part i + 1 with
\* the declared MIME type and the content of document i.
C17_OnePartPerDocument ==
    pc = "awaitCall" =>
        /\ Len(parts) = Len(files) + 1
        /\ parts[1].kind = "text"
        /\ \A i \in 1..Len(files) :
              /\ parts[i + 1].kind = "inlineData"
              /\ parts[i + 1].mimeType = files[i].type
              /\ parts[i + 1].data = [def |-> TRUE, v |-> <<files[i].base64[3]>>]
C17_Witness ==
    /\ pc = "awaitCall"
    /\ Len(files) = 2
    /\ files[1].name = "c.txt" /\ files[2].name = "a.pdf"
    /\ parts[2].mimeType = "text/plain" /\ parts[2].data.v = <<"R0hJ">>
    /\ parts[3].mimeType = "application/pdf" /\ parts[3].data.v = <<"QUJD">>

\* C20: for every topic the instruction text is the template with the
\* placeholder replaced by the topic as it is, also for a topic holding the
\* placeholder or $ patterns.
C20_TopicVerbatim ==
    pc = "awaitCall" =>
        parts[1].text = SubSeq(PROMPT_TEMPLATE, 1, 2) \o topic \o SubSeq(PROMPT_TEMPLATE, 4, 5)

----------------------------------------------------------------------------
(* App: the form, handleAnalyze and handleReset *)

Whitespace == { " ", "\n", "\t" }
RECURSIVE TrimStart(_), TrimEnd(_)
TrimStart(s) == IF s # <<>> /\ Head(s) \in Whitespace THEN TrimStart(Tail(s)) ELSE s
TrimEnd(s) ==
    IF s # <<>> /\ s[Len(s)] \in Whitespace THEN TrimEnd(SubSeq(s, 1, Len(s) - 1)) ELSE s
\* topic.trim()
Trim(s) == TrimEnd(TrimStart(s))

\* !topic: the topic tested without trim()
TopicEmpty(s) == s = <<>>

\* !topic.trim()
TopicBlank(s) == Trim(s) = <<>>

\* the messages handleAnalyze sets
EnterTopicMessage ==
    <<"P","l","e","a","s","e"," ","e","n","t","e","r"," ","a"," ","r","e","s","e","a","r",
      "c","h"," ","t","o","p","i","c",".">>
UploadPdfMessage ==
    <<"P","l","e","a","s","e"," ","u","p","l","o","a","d"," ","a","t"," ","l","e","a","s",
      "t"," ","o","n","e"," ","P","D","F"," ","a","r","t","i","c","l","e",".">>
UnexpectedErrorMessage ==
    <<"A","n"," ","u","n","e","x","p","e","c","t","e","d"," ","e","r","r","o","r"," ","o",
      "c","c","u","r","r","e","d"," ","d","u","r","i","n","g"," ","a","n","a","l","y","s",
      "i","s",".">>

\* err.message || "An unexpected error occurred during analysis."
ErrorText(e) ==
    IF e.hasMessage /\ e.message # <<>> THEN e.message ELSE UnexpectedErrorMessage

\* a value in a condition: null, 0 and "" count as false
Truthy(v) ==
    CASE v.type = "null" -> FALSE
      [] v.type = "num" -> v.n # 0
      [] v.type = "str" -> v.s # ""
      [] OTHER -> TRUE

\* what App renders: AnalysisView, the spinner, or the form
ViewRendered == app.stage = "RESULTS" /\ Truthy(app.results)
\* the form rendered in place of the spinner while stage is PROCESSING
FormRenderedWhileProcessing == ~ViewRendered
FormRendered == ~ViewRendered /\ app.stage # "PROCESSING"

\* the topics typed into the textarea, and the batches of files selected
AppTopics == { <<>>, <<" ">>, <<"A", "I">>, <<" ", "A">> }
AppBatches == { b \in [1..1 -> FileInputs] \cup [1..2 -> FileInputs] :
                   \A i, j \in 1..Len(b) : i # j => b[i] # b[j] }

RECURSIVE Pending(_)
\* the number of files in the batches S
Pending(S) == IF S = {} THEN 0 ELSE LET b == CHOOSE x \in S : TRUE IN Len(b) + Pending(S \ {b})

\* the outcomes of the calls of the invocation App starts: a 503 failure
\* without message, a 401 failure with one, a payload, and the body null
AppOutcomes ==
    { [kind |-> "failure", err |-> Err("ApiError", 503, FALSE, <<>>, 503, 0)],
      [kind |-> "failure", err |-> Err("ApiError", 401, TRUE, <<"d","e","n","i","e","d">>, 401, 0)],
      [kind |-> "response",
       resp |-> [hasText |-> TRUE, text |-> Serialize(AnalysisResponse(<<>>, <<>>))],
       m |-> <<"U","n","e","x","p","e","c","t","e","d"," ","t","o","k","e","n">>],
      [kind |-> "response", resp |-> [hasText |-> TRUE, text |-> <<TNull>>],
       m |-> <<"U","n","e","x","p","e","c","t","e","d"," ","t","o","k","e","n">>] }

\* onChange of the textarea: setTopic(e.target.value)
SetTopic(t) ==
    /\ FormRendered
    /\ app' = [app EXCEPT !.topic = t, !.op = "setTopic"]
    /\ UNCHANGED <<apiKey, callVars, invs>>

\* processFiles(fileList): the reads of a batch start
ProcessFiles(b) ==
    /\ FormRendered
    /\ b \notin app.reading
    /\ Len(app.files) + Pending(app.reading) + Len(b) <= MaxDocs
    /\ app' = [app EXCEPT !.reading = @ \cup {b}, !.op = "processFiles"]
    /\ UNCHANGED <<apiKey, callVars, invs>>

\* Promise.all(newFiles) resolves: setFiles(prev => [...prev, ...processedFiles])
FilesRead(b) ==
    /\ b \in app.reading
    /\ app' = [app EXCEPT !.reading = @ \ {b}, !.files = @ \o b, !.op = "filesRead"]
    /\ UNCHANGED <<apiKey, callVars, invs>>

\* s without its entry i
RemoveAt(s, i) == [j \in 1..(Len(s) - 1) |-> IF j < i THEN s[j] ELSE s[j + 1]]

\* removeFile(index): setFiles(prev => prev.filter((_, i) => i !== index))
RemoveFile(i) ==
    /\ FormRendered
    /\ i \in 1..Len(app.files)
    /\ app' = [app EXCEPT !.files = RemoveAt(@, i), !.op = "removeFile"]
    /\ UNCHANGED <<apiKey, callVars, invs>>

\* handleReset, the onReset of AnalysisView
HandleReset ==
    /\ ViewRendered
    /\ app' = [app EXCEPT !.topic = <<>>, !.files = <<>>, !.results = JNull,
                          !.stage = "INPUT", !.error = NoAppError, !.op = "handleReset"]
    /\ UNCHANGED <<apiKey, callVars, invs>>

\* the catch of handleAnalyze without setStage(AnalysisStage.INPUT)
ContinuationStaysProcessing(a, s) ==
    IF s.pc = "returned"
    THEN [a EXCEPT !.results = s.result.val, !.stage = "RESULTS"]
    ELSE IF s.pc = "thrown"
    THEN [a EXCEPT !.error = [has |-> TRUE, msg |-> ErrorText(s.error)]]
    ELSE a

\* handleAnalyze after await analyzeArticles(topic, files), the invocation
\* being s: nothing while it is under way, then the try or the catch
Continuation(a, s) ==
    IF s.pc = "returned"
    THEN [a EXCEPT !.results = s.result.val, !.stage = "RESULTS"]
    ELSE IF s.pc = "thrown"
    THEN [a EXCEPT !.error = [has |-> TRUE, msg |-> ErrorText(s.error)], !.stage = "INPUT"]
    ELSE a

\* the invocation a call of analyzeArticles becomes: the first one, or the
\* second one while the first is still under way
NextInvocation == IF invs[1].pc \in {"awaitCall", "awaitWait"} THEN 2 ELSE 1

\* handleAnalyze, the onClick of the button.  The button's disabled attribute
\* repeats the two checks below; the handler is taken to run whenever the
\* button is mounted, so that its own checks decide.
HandleAnalyze ==
    /\ FormRendered
    /\ IF TopicBlank(app.topic)
       THEN /\ app' = [app EXCEPT !.error = [has |-> TRUE, msg |-> EnterTopicMessage],
                                  !.op = "handleAnalyze"]
            /\ UNCHANGED invs
       ELSE IF Len(app.files) = 0
       THEN /\ app' = [app EXCEPT !.error = [has |-> TRUE, msg |-> UploadPdfMessage],
                                  !.op = "handleAnalyze"]
            /\ UNCHANGED invs
       ELSE LET i == NextInvocation
                s == InvokeStep(InvIdle, apiKey, app.topic, app.files) IN
            /\ invs[i].pc \notin {"awaitCall", "awaitWait"}
            /\ invs' = [invs EXCEPT ![i] = s]
            /\ app' = Continuation([app EXCEPT !.stage = "PROCESSING", !.error = NoAppError,
                                               !.op = "handleAnalyze"], s)
    /\ UNCHANGED <<apiKey, callVars>>

\* a call of invocation i settles with outcome o; when that ends the
\* invocation, the handleAnalyze that awaits it resumes in the same turn
AppCallSettles(i, o) ==
    /\ invs[i].pc = "awaitCall"
    /\ LET s == SettleStep(invs[i], o) IN
       /\ invs' = [invs EXCEPT ![i] = s]
       /\ app' = Continuation([app EXCEPT !.op = "resume"], s)
    /\ UNCHANGED <<apiKey, callVars>>

\* the timer of wait(delayMs) of invocation i fires
AppTimerFires(i) ==
    /\ invs[i].pc = "awaitWait"
    /\ invs[i].timers > 0
    /\ invs' = [invs EXCEPT ![i] = TimerStep(invs[i])]
    /\ UNCHANGED <<apiKey, callVars, app>>

AppNext ==
    \/ \E t \in AppTopics : SetTopic(t)
    \/ \E b \in AppBatches : ProcessFiles(b)
    \/ \E b \in AppBatches : FilesRead(b)
    \/ \E i \in 1..MaxDocs : RemoveFile(i)
    \/ HandleAnalyze
    \/ \E i \in Invocations, o \in AppOutcomes : AppCallSettles(i, o)
    \/ \E i \in Invocations : AppTimerFires(i)
    \/ HandleReset

SpecApp == Init /\ [][AppNext]_vars

\* C18: App never invokes analyzeArticles with a blank topic or without
\* files: handleAnalyze then sets an error message, makes no service call and
\* leaves the stage where it is, at INPUT.
C18_NoInvocationOnBlankInput ==
    [][ /\ invs'[1].pc # "idle" => Trim(invs'[1].topic) # <<>> /\ Len(invs'[1].files) > 0
        /\ (app'.op = "handleAnalyze" /\ (Trim(app.topic) = <<>> \/ Len(app.files) = 0)) =>
              /\ app'.error.has /\ app'.error.msg # <<>>
              /\ invs' = invs
              /\ app'.stage = app.stage
              /\ app.stage = "INPUT" => app'.stage = "INPUT" ]_vars
C18_Witness ==
    /\ app.op = "handleAnalyze"
    /\ app.topic = <<" ">>
    /\ Len(app.files) = 1
    /\ app.error = [has |-> TRUE, msg |-> EnterTopicMessage]
    /\ app.stage = "INPUT"
    /\ invs[1].pc = "idle"

\* C19: when analyzeArticles raises, App is back at INPUT with an error
\* message, its topic, files and results as they were; the stage is
\* PROCESSING only while the invocation is under way.
C19_RaiseReturnsToInput ==
    [][ /\ (invs'[1] # invs[1] /\ invs'[1].pc = "thrown") =>
              /\ app'.stage = "INPUT"
              /\ app'.error.has /\ app'.error.msg # <<>>
              /\ app'.topic = app.topic
              /\ app'.files = app.files
              /\ app'.results = app.results
        /\ app'.stage = "PROCESSING" => invs'[1].pc \in {"awaitCall", "awaitWait"} ]_vars
C19_Witness ==
    /\ app.op = "resume"
    /\ invs[1].pc = "thrown"
    /\ invs[1].calls = 4
    /\ app.stage = "INPUT"
    /\ app.error = [has |-> TRUE, msg |-> UnexpectedErrorMessage]
    /\ app.topic = <<" ", "A">>
    /\ Len(app.files) = 2

\* C23: in every state of App, stage = RESULTS implies that results is not
\* null, so that the results view is what is rendered, whatever non-empty
\* JSON text the service answered with.
C23_ResultsStageHasResults ==
    app.stage = "RESULTS" => app.results.type # "null" /\ ViewRendered

\* C24: App has at most one invocation of analyzeArticles under way, and
\* that exactly while stage = PROCESSING; in that stage neither
\* handleAnalyze nor handleReset runs (nor any other handler of the form),
\* so an invocation that settles is the only one there is.
InvocationsInFlight == { i \in Invocations : invs[i].pc \in {"awaitCall", "awaitWait"} }
C24_OneInvocationInFlight ==
    [][ /\ Cardinality(InvocationsInFlight') <= 1
        /\ (app'.stage = "PROCESSING") = (InvocationsInFlight' # {})
        /\ (app.stage = "PROCESSING" /\ app' # app) => app'.op \in {"resume", "filesRead"}
        /\ \A i \in Invocations :
              (invs[i].pc = "awaitCall" /\ invs'[i].pc \in {"returned", "thrown"}) =>
                  /\ InvocationsInFlight = {i}
                  /\ invs[i].topic = app.topic ]_vars
C24_Witness ==
    /\ app.stage = "PROCESSING"
    /\ app.op = "filesRead"
    /\ InvocationsInFlight = {1}
    /\ invs[1].pc = "awaitWait"
    /\ invs[1].attempt = 2
    /\ Len(app.files) > Len(invs[1].files)

----------------------------------------------------------------------------
(* FileUpload: batches of files being read, and removeFile *)

MaxSelected == 4
MaxBatch == 2

\* The files state of App as FileUpload drives it.  Every selected file is
\* numbered in selection order and every batch in order of its processFiles
\* call; selected, batches and removed record what was selected and removed.
\* A batch being read holds its files, the result of each read (pending
\* until onloadend) and the files prop of the render that started it.
UploadInitial ==
    [files |-> <<>>, reading |-> {}, selected |-> 0, batches |-> 0, removed |-> {},
     op |-> [name |-> "none", index |-> 0]]

UploadInit ==
    /\ apiKey = [def |-> TRUE, v |-> "key"]
    /\ app = UploadInitial
    /\ NoInvocation

\* processFiles(fileList) with n files: one FileReader per file is started
SelectFiles(n) ==
    /\ app.selected + n <= MaxSelected
    /\ app' = [app EXCEPT
                 !.reading = @ \cup
                    {[batch |-> app.batches + 1,
                      files |-> [k \in 1..n |-> app.selected + k],
                      results |-> [k \in 1..n |-> "pending"],
                      snapshot |-> app.files]},
                 !.selected = @ + n,
                 !.batches = @ + 1,
                 !.op = [name |-> "processFiles", index |-> 0]]
    /\ UNCHANGED <<apiKey, callVars, invs>>

\* processedFiles: the FileInput of each file of batch b, in the order of
\* newFiles
ProcessedFiles(b) ==
    [k \in 1..Len(b.files) |->
        [file |-> b.files[k], batch |-> b.batch, base64 |-> b.results[k]]]

\* setFiles([...files, ...processedFiles]) with the files prop of the render
\* in which processFiles ran
AppendToSnapshot(prev, b) == b.snapshot \o ProcessedFiles(b)

\* setFiles(prev => [...prev, ...processedFiles])
AppendProcessed(prev, b) == prev \o ProcessedFiles(b)

\* reader.onloadend of file k of batch b, with reader.result r (a data URL,
\* or null after a failed read): its promise resolves; with the last one of
\* the batch Promise.all resolves and the batch is appended
ReadEnds(b, k, r) ==
    /\ b \in app.reading
    /\ k \in 1..Len(b.files)
    /\ b.results[k] = "pending"
    /\ LET nb == [b EXCEPT !.results[k] = r] IN
       IF \A j \in 1..Len(nb.files) : nb.results[j] # "pending"
       THEN app' = [app EXCEPT !.reading = @ \ {b},
                               !.files = AppendProcessed(@, nb),
                               !.op = [name |-> "filesRead", index |-> 0]]
       ELSE app' = [app EXCEPT !.reading = (@ \ {b}) \cup {nb},
                               !.op = [name |-> "onloadend", index |-> 0]]
    /\ UNCHANGED <<apiKey, callVars, invs>>

\* removeFile(index), index counted from 1 here
UploadRemoveFile(i) ==
    /\ i \in 1..Len(app.files)
    /\ app' = [app EXCEPT !.files = RemoveAt(@, i),
                          !.removed = @ \cup {app.files[i].file},
                          !.op = [name |-> "removeFile", index |-> i]]
    /\ UNCHANGED <<apiKey, callVars, invs>>

UploadNext ==
    \/ \E n \in 1..MaxBatch : SelectFiles(n)
    \/ \E b \in app.reading, k \in 1..MaxBatch, r \in {"data", "null"} : ReadEnds(b, k, r)
    \/ \E i \in 1..MaxSelected : UploadRemoveFile(i)

SpecUpload == UploadInit /\ [][UploadNext]_vars

\* the files of the list, of the batches being read, and their positions
ListedFiles == { app.files[j].file : j \in 1..Len(app.files) }
FilesBeingRead == UNION { { b.files[k] : k \in 1..Len(b.files) } : b \in app.reading }

\* every selected file is in exactly one place: in the list (once), in a
\* batch being read, or removed; files of one batch are next to each other
\* in the list, in selection order, and none is listed before its read ended
FilesAccounted ==
    /\ Cardinality(ListedFiles) = Len(app.files)
    /\ ListedFiles \cup FilesBeingRead \cup app.removed = 1..app.selected
    /\ ListedFiles \cap FilesBeingRead = {}
    /\ ListedFiles \cap app.removed = {}
    /\ FilesBeingRead \cap app.removed = {}
    /\ \A j \in 1..Len(app.files) : app.files[j].base64 \in {"data", "null"}
    /\ \A p, q \in 1..Len(app.files) :
          (p < q /\ app.files[p].batch = app.files[q].batch) =>
              /\ app.files[p].file < app.files[q].file
              /\ \A r \in p..q : app.files[r].batch = app.files[p].batch

\* C25: under every interleaving of batches, whose reads end in any order,
\* and of removeFile, no file is lost or duplicated: a batch is appended
\* whole, once, in selection order, when its last read has ended, and
\* removeFile(i) takes entry i out of the current list and nothing else.
C25_NoFileLostOrDuplicated ==
    [][ /\ FilesAccounted'
        /\ app'.op.name = "filesRead" =>
              \E b \in app.reading :
                 /\ b \notin app'.reading
                 /\ Len(app'.files) = Len(app.files) + Len(b.files)
                 /\ \A j \in 1..Len(app.files) : app'.files[j] = app.files[j]
                 /\ \A k \in 1..Len(b.files) :
                       /\ app'.files[Len(app.files) + k].file = b.files[k]
                       /\ app'.files[Len(app.files) + k].batch = b.batch
        /\ app'.op.name = "removeFile" =>
              LET i == app'.op.index IN
              /\ Len(app'.files) = Len(app.files) - 1
              /\ \A j \in 1..Len(app'.files) :
                    app'.files[j] = IF j < i THEN app.files[j] ELSE app.files[j + 1]
              /\ app'.removed = app.removed \cup {app.files[i].file}
              /\ app'.reading = app.reading
        /\ app'.op.name \in {"processFiles", "onloadend"} => app'.files = app.files ]_vars
C25_Witness ==
    /\ app.op = [name |-> "removeFile", index |-> 2]
    /\ Len(app.files) = 3
    /\ app.files[1].file = 3 /\ app.files[2].file = 1 /\ app.files[3].file = 2
    /\ app.removed = {4}
    /\ app.files[2].batch = 1 /\ app.files[3].batch = 1

====
